---- MODULE Spec2Model ----
(***************************************************************************)
(* The caching layer of the Olist dashboard:                               *)
(*   - the disk cache of CacheManager and smart_cache_query                *)
(*     (olist_dashboard/data/cache_manager.py),                            *)
(*   - the st.cache_data memoisation around BigQueryDataLoader.execute_query*)
(*     and the page loaders (data_loader.py, pages/executive_summary.py),  *)
(*   - the cache key generator CacheManager._generate_cache_key.           *)
(* Time is counted in seconds.  Python's None is the string "None" among   *)
(* data values and the empty sequence among optional integers.             *)
(***************************************************************************)
EXTENDS Integers, Sequences, FiniteSets, TLC

VARIABLES
    now,        \* the wall clock, in seconds
    disk,       \* .streamlit_cache: the file of every cache key
    op,         \* the last operation performed and what it returned
    client,     \* BigQueryDataLoader.client is set (the client was initialised)
    memo,       \* st.cache_data entries of execute_query, by query string
    pageMemo,   \* st.cache_data entries of load_executive_metrics, by date range
    env,        \* what the start of the running process drew at random
    keyCalls,   \* the calls of _generate_cache_key made so far
    callers,    \* the threads inside smart_cache_query: where each one stands
    invocations,\* what each invocation of query_func did, for each key
    manager,    \* the CacheManager held by st.cache_resource
    startupSweeps, \* the sweeps initialize_cache ran with the manager now held
    configTtl,  \* CACHE_CONFIG["ttl"] of the settings the process was started with
    sources,    \* where service-account credentials can come from, and their state
    sweep,      \* the thread inside clear_expired_cache: the files still to visit
    writing     \* the saves that have opened their file and not yet written it

diskVars == <<disk>>
memVars == <<client, memo, pageMemo>>
keyVars == <<env, keyCalls>>
concVars == <<callers, invocations>>
appVars == <<manager, startupSweeps>>
raceVars == <<sweep, writing>>
restVars == <<configTtl, sources, raceVars>>
vars == <<now, disk, op, client, memo, pageMemo, env, keyCalls,
          callers, invocations, manager, startupSweeps,
          configTtl, sources, sweep, writing>>

----------------------------------------------------------------------------
(* Bounds of the model *)

\* how many positional arguments a call of _generate_cache_key is given
MaxArgs == 1
\* how many calls of _generate_cache_key are compared
MaxKeyCalls == 2

\* how many one-second steps the clock takes inside one default-TTL period
MaxShort == 1
\* how many jumps of a whole default TTL the clock takes
MaxLong == 1

\* how many reruns of main() one CacheManager is followed through
MaxRenders == 2

(* Program constants *)

\* CACHE_CONFIG["ttl"]
CACHE_CONFIG_ttl == 3600
\* DATA_REFRESH["metrics_ttl"]
DATA_REFRESH_metrics_ttl == 14400

----------------------------------------------------------------------------
(* Values *)

Keys == {"k1", "k2"}

\* a polars DataFrame: without rows, or with rows
Payloads == {"Empty", "Rows"}
None == "None"

\* what one invocation of query_func does: raise, return None, or return a frame
Outcomes == {"raise", "None"} \cup Payloads

\* the ttl argument: None (not given) or an integer
NoTtl == <<>>
TtlArgs == {NoTtl, <<0>>, <<1>>}

\* the file of a key: missing, unreadable by pickle.load, or a pickled cache_data
Absent == [kind |-> "absent"]
Corrupt == [kind |-> "corrupt"]
IsEntry(f) == f.kind = "entry"

\* a SQL string handed to execute_query, and a (start_date, end_date) pair
Queries == {"q1", "q2"}
DateRanges == {"r1", "r2"}

\* what the warehouse does with one query: raise, or return rows or no rows
BqOutcomes == {"raise"} \cup Payloads

\* an entry of st.cache_data
NoMemo == [kind |-> "nomemo"]

\* op is the last operation performed: its name and arguments, the time of
\* the call (at), the file it found (pre) and what it returned (ret)
NoOp == [name |-> "none"]

\* the threads (Streamlit sessions) that call smart_cache_query together,
\* and a thread that is not inside a call
Callers == {"t1", "t2"}
Idle == [pc |-> "idle"]

\* what the operating system does with one listed file during a pass over the
\* directory: nothing special, open() raises PermissionError, os.remove()
\* raises, or the file is gone again by the time the pass reaches it
Faults == {"none", "unreadable", "unremovable", "vanished"}

\* the places get_bigquery_credentials looks at, in order: the file named by
\* GOOGLE_APPLICATION_CREDENTIALS, st.secrets["gcp_service_account"], and the
\* key file in the working directory; each is absent, holds a valid service
\* account key, or holds something that is not one
SourceNames == {"env", "secrets", "keyfile"}
SourceStates == {"absent", "valid", "invalid"}

\* no clear_expired_cache is running; no save has the file of the key open
NotSweeping == [pc |-> "idle"]
NotWriting == [pc |-> "none"]

\* the values CACHE_CONFIG["ttl"] is edited to: the default, and one second
ConfigTtls == {CACHE_CONFIG_ttl, 1}

\* the operations that ask for a cache key, and the live objects whose repr
\* is the default <... object at 0x...>
Operations == {"load_executive_metrics", "load_trends_data"}
Handles == {"conn1", "conn2"}
\* what the start of a process draws at random: the addresses of its objects
\* (two objects alive together never share one) and the seed of str hashes,
\* which fixes the iteration order of a set of strings
ProcEnvs ==
    {[addr |-> [conn1 |-> <<"0", "x", "1">>, conn2 |-> <<"0", "x", "2">>],
      reversed |-> FALSE],
     [addr |-> [conn1 |-> <<"0", "x", "2">>, conn2 |-> <<"0", "x", "1">>],
      reversed |-> TRUE]}
InitialEnv ==
    [addr |-> [conn1 |-> <<"0", "x", "1">>, conn2 |-> <<"0", "x", "2">>],
     reversed |-> FALSE]

\* Python values handed to _generate_cache_key; text is a sequence of
\* characters
PyInt(digits) == [t |-> "int", v |-> digits]
PyStr(chars) == [t |-> "str", v |-> chars]
PyHandle(h) == [t |-> "handle", v |-> <<h>>]
\* a set of one-character strings
PySet(elems) == [t |-> "set", v |-> elems]
ArgVals == {PyInt(<<"1">>), PySet(<<"R", "S">>), PyHandle("conn1"), PyHandle("conn2")}
KwVals == {PyInt(<<"1">>), PyStr(<<"1">>)}
\* the keyword names, in sorted order
KwNames == <<"a", "b">>

----------------------------------------------------------------------------
(* CacheManager: the pure parts *)

\* ttl_seconds or CACHE_CONFIG["ttl"]: None and 0 are both falsy
stored_ttl(ttl_seconds) ==
    IF ttl_seconds = NoTtl \/ ttl_seconds[1] = 0
    THEN CACHE_CONFIG_ttl
    ELSE ttl_seconds[1]

\* the same under settings whose CACHE_CONFIG["ttl"] is config_ttl
stored_ttl_under(ttl_seconds, config_ttl) ==
    IF ttl_seconds = NoTtl \/ ttl_seconds[1] = 0
    THEN config_ttl
    ELSE ttl_seconds[1]

\* the expiry decisions taking the ttl from the settings of the moment
effective_ttl_from_config(f, config_ttl) == config_ttl

\* ttl_seconds = cache_data.get('ttl', CACHE_CONFIG["ttl"]) in load, sweep and
\* stats: every dict save_to_disk_cache pickles has the key 'ttl', so the
\* default is not used
effective_ttl(f, config_ttl) == f.ttl

\* the file as load, sweep and stats see it under those settings
as_read(f, config_ttl) ==
    IF IsEntry(f) THEN [f EXCEPT !.ttl = effective_ttl(f, config_ttl)] ELSE f

\* the dict save_to_disk_cache pickles, with the payload lost on the way
cache_data_losing_rows(data, ttl_seconds, t) ==
    [kind |-> "entry", data |-> "Empty", timestamp |-> t, ttl |-> stored_ttl(ttl_seconds)]

\* the dict save_to_disk_cache pickles
cache_data(data, ttl_seconds, t) ==
    [kind |-> "entry", data |-> data, timestamp |-> t, ttl |-> stored_ttl(ttl_seconds)]

\* the expiry test with the boundary on the wrong side (as _is_cache_valid has it)
is_expired_at_boundary(f, t) == t - f.timestamp >= f.ttl

\* timestamp and datetime.now() - timestamp > timedelta(seconds=ttl_seconds)
is_expired(f, t) == t - f.timestamp > f.ttl

\* what load_from_disk_cache returns: None for a missing file, for a file that
\* pickle.load cannot read (the except branch) and for an expired entry
load_return(f, t) ==
    IF ~IsEntry(f) THEN None
    ELSE IF is_expired(f, t) THEN None
    ELSE f.data

\* the file after load_from_disk_cache: os.remove on the expired entry only
load_file(f, t) ==
    IF IsEntry(f) /\ is_expired(f, t) THEN Absent ELSE f

\* clear_expired_cache leaving alone the files it cannot read
sweep_removes_expired_only(f, t) == IsEntry(f) /\ is_expired(f, t)

\* the file after one iteration of clear_expired_cache: expired and unreadable
\* files are removed
sweep_removes(f, t) ==
    \/ f = Corrupt
    \/ IsEntry(f) /\ is_expired(f, t)

\* get_cache_stats with the boundary age == ttl counted as expired
stats_valid_before_boundary(f, t) == IsEntry(f) /\ t - f.timestamp < f.ttl

\* get_cache_stats counts the file as valid
stats_valid(f, t) == IsEntry(f) /\ t - f.timestamp <= f.ttl

\* round((valid_files / total_files * 100) if total_files > 0 else 0, 1),
\* in tenths of a percent (1000 is 100.0); the half is rounded up here, which
\* is what round() gives for every quotient of at most four files
hit_rate(valid_files, total_files) ==
    IF total_files > 0
    THEN (2 * 1000 * valid_files + total_files) \div (2 * total_files)
    ELSE 0

\* clear_all_cache sparing the files that have not expired
clear_all_file_expired_only(f, t) == IF sweep_removes(f, t) THEN Absent ELSE f

\* the file after clear_all_cache: os.remove on every .pkl file, whatever
\* its age at the time t of the call
clear_all_file(f, t) == Absent

\* the stores smart_cache_query consults, in order: always the disk store
\* first, then query_func on a miss; st.cache_data is never consulted and
\* nothing is copied into it
lookup_order(f, t) ==
    IF load_return(f, t) = None THEN <<"disk", "query_func">> ELSE <<"disk">>

\* smart_cache_query: is query_func invoked (the cache answered None)
query_invoked(f, t) == load_return(f, t) = None

\* smart_cache_query: is the result saved
\* (result is not None and not result.is_empty())
result_saved(outcome) == outcome = "Rows"

\* smart_cache_query falling back to the expired entry when query_func raises
smart_return_serving_stale(f, t, outcome) ==
    IF ~query_invoked(f, t) THEN load_return(f, t)
    ELSE IF outcome = "raise" THEN (IF IsEntry(f) THEN f.data ELSE None)
    ELSE outcome

\* smart_cache_query: the value handed back
smart_return(f, t, outcome) ==
    IF ~query_invoked(f, t) THEN load_return(f, t)
    ELSE IF outcome = "raise" THEN None
    ELSE outcome

\* smart_cache_query with an except branch that caches an empty frame
smart_file_caching_failure(f, t, outcome, ttl) ==
    IF ~query_invoked(f, t) THEN load_file(f, t)
    ELSE IF outcome = "raise" THEN cache_data("Empty", ttl, t)
    ELSE IF result_saved(outcome) THEN cache_data(outcome, ttl, t)
    ELSE load_file(f, t)

\* smart_cache_query: the file afterwards
smart_file(f, t, outcome, ttl) ==
    IF ~query_invoked(f, t) THEN load_file(f, t)
    ELSE IF result_saved(outcome) THEN cache_data(outcome, ttl, t)
    ELSE load_file(f, t)

----------------------------------------------------------------------------
(* The passes over the cache directory when a file operation can fail *)

\* os.listdir(self.cache_dir): the files present, in an order the operating
\* system picks
Listings(files) ==
    LET present == {k \in Keys : files[k] # Absent} IN
    {l \in [1..Cardinality(present) -> present] :
        \A i, j \in 1..Cardinality(present) : i # j => l[i] # l[j]}

\* one I/O failure at most, on a file that is listed
FaultAssignments(files) ==
    {fa \in [Keys -> Faults] :
        /\ \A k \in Keys : files[k] = Absent => fa[k] = "none"
        /\ Cardinality({k \in Keys : fa[k] # "none"}) <= 1}

\* one iteration of the loop of clear_expired_cache.  A vanished or
\* unreadable file makes open()/pickle.load raise; the except branch calls
\* os.remove, which raises itself on a vanished or unremovable file, and
\* that exception leaves the loop.  os.remove raising on an expired entry is
\* caught by the same except branch, whose os.remove raises again.
sweep_entry(f, fault, t) ==
    IF fault = "vanished" THEN [file |-> Absent, cleared |-> 0, raised |-> TRUE]
    ELSE IF fault = "unreadable" \/ f = Corrupt THEN
        IF fault = "unremovable"
        THEN [file |-> f, cleared |-> 0, raised |-> TRUE]
        ELSE [file |-> Absent, cleared |-> 1, raised |-> FALSE]
    ELSE IF is_expired(f, t) THEN
        IF fault = "unremovable"
        THEN [file |-> f, cleared |-> 0, raised |-> TRUE]
        ELSE [file |-> Absent, cleared |-> 1, raised |-> FALSE]
    ELSE [file |-> f, cleared |-> 0, raised |-> FALSE]

\* the loop of clear_expired_cache from position i of the listing on; an
\* exception that leaves the loop is caught by the outer except, which logs
\* it and ends the pass
RECURSIVE sweep_pass(_, _, _, _, _, _)
sweep_pass(files, listing, faults, t, i, cleared_count) ==
    IF i > Len(listing)
    THEN [files |-> files, examined |-> {listing[j] : j \in 1..Len(listing)},
          cleared_count |-> cleared_count, aborted |-> FALSE]
    ELSE LET k == listing[i]
             r == sweep_entry(files[k], faults[k], t)
         IN IF r.raised
            THEN [files |-> [files EXCEPT ![k] = r.file],
                  examined |-> {listing[j] : j \in 1..i},
                  cleared_count |-> cleared_count, aborted |-> TRUE]
            ELSE sweep_pass([files EXCEPT ![k] = r.file], listing, faults, t,
                            i + 1, cleared_count + r.cleared)

\* get_cache_stats: os.path.getsize of every listed file is summed before
\* the loop and outside its try, so a vanished file ends the call in the
\* outer except (it returns {}); inside the loop an unreadable file is
\* skipped
stats_pass(files, listing, faults, t) ==
    IF \E j \in 1..Len(listing) : faults[listing[j]] = "vanished"
    THEN [examined |-> {}, valid_files |-> 0, aborted |-> TRUE]
    ELSE [examined |-> {listing[j] : j \in 1..Len(listing)},
          valid_files |-> Cardinality({k \in Keys :
                              faults[k] # "unreadable" /\ stats_valid(files[k], t)}),
          aborted |-> FALSE]

----------------------------------------------------------------------------
(* CacheManager._generate_cache_key *)

\* repr of a str: single quotes, double quotes when the text holds a single
\* quote and no double quote, a backslash before a quote that would end it
py_repr_str(chars) ==
    LET q == IF (\E i \in 1..Len(chars) : chars[i] = "'")
                /\ ~(\E i \in 1..Len(chars) : chars[i] = "\"")
             THEN "\"" ELSE "'"
        esc[i \in 0..Len(chars)] ==
            IF i = 0 THEN <<>>
            ELSE esc[i - 1] \o (IF chars[i] = q \/ chars[i] = "\\"
                                THEN <<"\\", chars[i]>> ELSE <<chars[i]>>)
    IN <<q>> \o esc[Len(chars)] \o <<q>>

\* ", ".join of the texts
RECURSIVE py_join(_)
py_join(texts) ==
    IF texts = <<>> THEN <<>>
    ELSE IF Len(texts) = 1 THEN texts[1]
    ELSE texts[1] \o <<",", " ">> \o py_join(Tail(texts))

\* repr of one value in a process that drew e: an object without __repr__
\* prints its address, a set prints its elements in iteration order
py_repr(x, e) ==
    IF x.t = "int" THEN x.v
    ELSE IF x.t = "str" THEN py_repr_str(x.v)
    ELSE IF x.t = "set" THEN
        <<"{">> \o py_join([i \in 1..Len(x.v) |->
                    py_repr_str(<<x.v[IF e.reversed THEN Len(x.v) + 1 - i ELSE i]>>)])
              \o <<"}">>
    ELSE <<"<", "o", "b", "j", " ", "a", "t", " ">> \o e.addr[x.v[1]] \o <<">">>

\* str(args) of a tuple: (), (x,), (x, y)
py_str_tuple(args, e) ==
    <<"(">> \o py_join([i \in 1..Len(args) |-> py_repr(args[i], e)])
          \o (IF Len(args) = 1 THEN <<",">> ELSE <<>>) \o <<")">>

\* sorted(kwargs.items()): the (name, value) pairs by name; the names of one
\* call are distinct, so the values are never compared
RECURSIVE sorted_items_from(_, _)
sorted_items_from(kwargs, i) ==
    IF i > Len(KwNames) THEN <<>>
    ELSE SelectSeq(kwargs, LAMBDA item : item[1] = KwNames[i])
         \o sorted_items_from(kwargs, i + 1)

sorted_items(kwargs) == sorted_items_from(kwargs, 1)

\* str of a list of (name, value) tuples: [('a', 1), ('b', 2)]
py_str_items(items, e) ==
    <<"[">> \o py_join([i \in 1..Len(items) |->
                <<"(">> \o py_repr_str(<<items[i][1]>>) \o <<",", " ">>
                      \o py_repr(items[i][2], e) \o <<")">>])
          \o <<"]">>

\* key_string = str(args) + str(sorted(kwargs.items()))
key_string(args, kwargs, e) ==
    py_str_tuple(args, e) \o py_str_items(sorted_items(kwargs), e)

\* hashlib.md5(key_string.encode()).hexdigest(): a fixed function of the
\* text; the digest is kept as the text it was computed from, so two keys
\* are equal exactly when their key strings are (md5 collisions are left out)
md5_hexdigest(text) == [md5 |-> text]

\* _generate_cache_key(*args, **kwargs) called by an operation in a process
\* that drew e: the operation is no part of the key, and no argument makes
\* it raise
generate_cache_key(operation, args, kwargs, e) ==
    [raised |-> "", key |-> md5_hexdigest(key_string(args, kwargs, e))]

\* the argument lists of the model
ArgTuples == UNION {[1..n -> ArgVals] : n \in 0..MaxArgs}
KwargLists ==
    {kw \in UNION {[1..n -> {<<KwNames[i], v>> : i \in 1..Len(KwNames), v \in KwVals}]
                    : n \in 0..Len(KwNames)} :
        \A i, j \in 1..Len(kw) : i # j => kw[i][1] # kw[j][1]}

----------------------------------------------------------------------------
(* The in-memory tier: functions wrapped by st.cache_data(ttl=...) *)

\* st.cache_data serves the stored return value while the entry is younger
\* than ttl
memo_valid(m, ttl, t) == m.kind = "memo" /\ t - m.at < ttl

\* st.cache_data stores whatever the wrapped function returns
memo_entry(value, t) == [kind |-> "memo", value |-> value, at |-> t]

\* the body of execute_query: None without a client, None when the query
\* raises (the except branch), otherwise the frame
execute_query_body(cl, outcome) ==
    IF cl # "ok" THEN None
    ELSE IF outcome = "raise" THEN None
    ELSE outcome

\* the body of load_executive_metrics: get_executive_metrics(self) takes no
\* start_date/end_date, the call raises TypeError and the except branch
\* returns None
load_executive_metrics_body == None

----------------------------------------------------------------------------
(* The disk cache as a state machine *)

Init ==
    /\ now = 0
    /\ disk = [k \in Keys |-> Absent]
    /\ op = NoOp
    /\ client = "none"
    /\ memo = [q \in Queries |-> NoMemo]
    /\ pageMemo = [r \in DateRanges |-> NoMemo]
    /\ env = InitialEnv
    /\ keyCalls = <<>>
    /\ callers = [c \in Callers |-> Idle]
    /\ invocations = [k \in Keys |-> <<>>]
    /\ manager = "none"
    /\ startupSweeps = 0
    /\ configTtl = CACHE_CONFIG_ttl
    /\ sources = [s \in SourceNames |-> "absent"]
    /\ sweep = NotSweeping
    /\ writing = [k \in Keys |-> NotWriting]

\* one second passes
Tick ==
    /\ now % CACHE_CONFIG_ttl < MaxShort
    /\ now' = now + 1
    /\ UNCHANGED <<disk, op, memVars, keyVars, concVars, appVars, restVars>>

\* a whole default TTL passes
TickLong ==
    /\ now \div CACHE_CONFIG_ttl < MaxLong
    /\ now' = now + CACHE_CONFIG_ttl
    /\ UNCHANGED <<disk, op, memVars, keyVars, concVars, appVars, restVars>>

SaveToDiskCache(k, data, ttl) ==
    /\ disk' = [disk EXCEPT ![k] = cache_data(data, ttl, now)]
    /\ op' = [name |-> "save_to_disk_cache", key |-> k, data |-> data, ttl |-> ttl,
              at |-> now, pre |-> disk[k], ret |-> "True"]
    /\ UNCHANGED <<now, memVars, keyVars, concVars, appVars, restVars>>

LoadFromDiskCache(k) ==
    /\ disk' = [disk EXCEPT ![k] = load_file(disk[k], now)]
    /\ op' = [name |-> "load_from_disk_cache", key |-> k, at |-> now,
              pre |-> disk[k], ret |-> load_return(disk[k], now)]
    /\ UNCHANGED <<now, memVars, keyVars, concVars, appVars, restVars>>

\* a process killed between open(cache_file, 'wb') and the end of pickle.dump
\* leaves a truncated file
CrashInSave(k) ==
    /\ disk' = [disk EXCEPT ![k] = Corrupt]
    /\ op' = [name |-> "crash_in_save", key |-> k, ret |-> None, at |-> now]
    /\ UNCHANGED <<now, memVars, keyVars, concVars, appVars, restVars>>

\* clear_expired_cache has no return statement: the caller gets None, and
\* cleared_count only reaches the log
ClearExpiredCache ==
    /\ disk' = [k \in Keys |-> IF sweep_removes(disk[k], now) THEN Absent ELSE disk[k]]
    /\ op' = [name |-> "clear_expired_cache", key |-> "", ret |-> None,
              cleared_count |-> Cardinality({k \in Keys : sweep_removes(disk[k], now)}),
              at |-> now]
    /\ UNCHANGED <<now, memVars, keyVars, concVars, appVars, restVars>>

\* st.cache_data.clear(), st.cache_resource.clear() (the cached loader and
\* the cached CacheManager are dropped), then every .pkl file is removed;
\* op.pre keeps which keys held a valid file, which a file a sweep would
\* remove, and which st.cache_data entries existed
ClearAllCache ==
    /\ memo' = [q \in Queries |-> NoMemo]
    /\ pageMemo' = [r \in DateRanges |-> NoMemo]
    /\ client' = "none"
    /\ disk' = [k \in Keys |-> clear_all_file(disk[k], now)]
    /\ manager' = "none"
    /\ op' = [name |-> "clear_all_cache", key |-> "", ret |-> None, at |-> now,
              pre |-> [valid |-> {k \in Keys : stats_valid(disk[k], now)},
                       stale |-> {k \in Keys : sweep_removes(disk[k], now)},
                       memo |-> {q \in Queries : memo[q] # NoMemo},
                       pageMemo |-> {r \in DateRanges : pageMemo[r] # NoMemo}]]
    /\ UNCHANGED <<now, keyVars, concVars, startupSweeps, restVars>>

GetCacheStats ==
    LET total_files == Cardinality({k \in Keys : disk[k] # Absent})
        valid_files == Cardinality({k \in Keys : stats_valid(disk[k], now)})
    IN
    /\ op' = [name |-> "get_cache_stats", key |-> "",
              ret |-> [total_files |-> total_files,
                       valid_files |-> valid_files,
                       hit_rate |-> hit_rate(valid_files, total_files)],
              at |-> now]
    /\ UNCHANGED <<now, disk, memVars, keyVars, concVars, appVars, restVars>>

SmartCacheQuery(k, outcome, ttl) ==
    LET invoked == query_invoked(disk[k], now) IN
    /\ disk' = [disk EXCEPT ![k] = smart_file(disk[k], now, outcome, ttl)]
    /\ op' = [name |-> "smart_cache_query", key |-> k, ttl |-> ttl, at |-> now,
              pre |-> disk[k],
              outcome |-> IF invoked THEN outcome ELSE "hit",
              ret |-> smart_return(disk[k], now, outcome)]
    /\ UNCHANGED <<now, memVars, keyVars, concVars, appVars, restVars>>

Next ==
    \/ Tick
    \/ TickLong
    \/ \E k \in Keys, d \in Payloads, ttl \in TtlArgs : SaveToDiskCache(k, d, ttl)
    \/ \E k \in Keys : LoadFromDiskCache(k)
    \/ \E k \in Keys : CrashInSave(k)
    \/ ClearExpiredCache
    \/ ClearAllCache
    \/ GetCacheStats
    \/ \E k \in Keys, o \in Outcomes, ttl \in TtlArgs : SmartCacheQuery(k, o, ttl)

Spec == Init /\ [][Next]_vars

----------------------------------------------------------------------------
(* The passes over the directory on a disk whose operations can fail *)

\* clear_expired_cache over the listing, with the failures the operating
\* system answers with; a vanished file is gone whether the pass got to it
\* or not
ClearExpiredCacheOnFaultyDisk(listing, faults) ==
    LET r == sweep_pass(disk, listing, faults, now, 1, 0) IN
    /\ disk' = [k \in Keys |-> IF faults[k] = "vanished" THEN Absent ELSE r.files[k]]
    /\ op' = [name |-> "clear_expired_cache", key |-> "", ret |-> None,
              cleared_count |-> r.cleared_count, faults |-> faults,
              examined |-> r.examined, aborted |-> r.aborted, at |-> now]
    /\ UNCHANGED <<now, memVars, keyVars, concVars, appVars, restVars>>

GetCacheStatsOnFaultyDisk(listing, faults) ==
    LET r == stats_pass(disk, listing, faults, now) IN
    /\ disk' = [k \in Keys |-> IF faults[k] = "vanished" THEN Absent ELSE disk[k]]
    /\ op' = [name |-> "get_cache_stats", key |-> "", valid_files |-> r.valid_files,
              faults |-> faults, examined |-> r.examined, aborted |-> r.aborted,
              at |-> now]
    /\ UNCHANGED <<now, memVars, keyVars, concVars, appVars, restVars>>

\* where a save can raise: in open(cache_file, 'wb'), or in pickle.dump
\* (data that cannot be pickled, a full disk)
SaveStages == {"open", "dump"}

\* the file a failed save leaves: open(cache_file, 'wb') has truncated it by
\* the time pickle.dump raises, and the except branch only logs
failed_save_file(f, stage) ==
    IF stage = "open" THEN f ELSE Corrupt

\* save_to_disk_cache through its except branch: return False
SaveToDiskCacheFailing(k, data, ttl, stage) ==
    /\ disk' = [disk EXCEPT ![k] = failed_save_file(disk[k], stage)]
    /\ op' = [name |-> "save_to_disk_cache", key |-> k, data |-> data, ttl |-> ttl,
              at |-> now, pre |-> disk[k], ret |-> "False", stage |-> stage]
    /\ UNCHANGED <<now, memVars, keyVars, concVars, appVars, restVars>>

IoNext ==
    \/ Tick
    \/ TickLong
    \/ \E k \in Keys, ttl \in {NoTtl, <<1>>} : SaveToDiskCache(k, "Rows", ttl)
    \/ \E k \in Keys, stage \in SaveStages :
            SaveToDiskCacheFailing(k, "Rows", NoTtl, stage)
    \/ \E k \in Keys : CrashInSave(k)
    \/ \E listing \in Listings(disk), faults \in FaultAssignments(disk) :
            ClearExpiredCacheOnFaultyDisk(listing, faults)
    \/ \E listing \in Listings(disk), faults \in FaultAssignments(disk) :
            GetCacheStatsOnFaultyDisk(listing, faults)

IoSpec == Init /\ [][IoNext]_vars

----------------------------------------------------------------------------
(* The in-memory tier as a state machine *)

\* get_data_loader: st.cache_resource builds the BigQueryDataLoader once;
\* _initialize_client leaves client None when bigquery.Client raises
GetDataLoader(ok) ==
    /\ client = "none"
    /\ client' = IF ok THEN "ok" ELSE "failed"
    /\ op' = [name |-> "get_data_loader", key |-> "", ret |-> client', at |-> now]
    /\ UNCHANGED <<now, disk, memo, pageMemo, keyVars, concVars, appVars, restVars>>

ExecuteQuery(q, outcome) ==
    LET hit == memo_valid(memo[q], CACHE_CONFIG_ttl, now)
        ret == IF hit THEN memo[q].value ELSE execute_query_body(client, outcome)
    IN
    /\ client # "none"
    /\ memo' = IF hit THEN memo ELSE [memo EXCEPT ![q] = memo_entry(ret, now)]
    /\ op' = [name |-> "execute_query", key |-> q, at |-> now, pre |-> memo[q],
              outcome |-> IF hit THEN "hit"
                          ELSE IF client # "ok" THEN "no_client" ELSE outcome,
              ret |-> ret]
    /\ UNCHANGED <<now, disk, client, pageMemo, keyVars, concVars, appVars, restVars>>

LoadExecutiveMetrics(r) ==
    LET hit == memo_valid(pageMemo[r], DATA_REFRESH_metrics_ttl, now)
        ret == IF hit THEN pageMemo[r].value ELSE load_executive_metrics_body
    IN
    /\ client # "none"
    /\ pageMemo' = IF hit THEN pageMemo ELSE [pageMemo EXCEPT ![r] = memo_entry(ret, now)]
    /\ op' = [name |-> "load_executive_metrics", key |-> r, at |-> now,
              pre |-> pageMemo[r],
              outcome |-> IF hit THEN "hit" ELSE "raise",
              ret |-> ret]
    /\ UNCHANGED <<now, disk, client, memo, keyVars, concVars, appVars, restVars>>

MemNext ==
    \/ Tick
    \/ TickLong
    \/ \E ok \in BOOLEAN : GetDataLoader(ok)
    \/ \E q \in Queries, o \in BqOutcomes : ExecuteQuery(q, o)
    \/ \E r \in DateRanges : LoadExecutiveMetrics(r)
    \/ ClearAllCache

MemSpec == Init /\ [][MemNext]_vars

----------------------------------------------------------------------------
(* Both tiers together: the disk store, st.cache_data and clear_all_cache *)

TierNext ==
    \/ Tick
    \/ TickLong
    \/ \E k \in Keys : SaveToDiskCache(k, "Rows", <<1>>)
    \/ \E o \in {"raise", "Rows"} : SmartCacheQuery("k1", o, NoTtl)
    \/ GetDataLoader(TRUE)
    \/ \E o \in {"raise", "Rows"} : ExecuteQuery("q1", o)
    \/ LoadExecutiveMetrics("r1")
    \/ ClearAllCache

TierSpec == Init /\ [][TierNext]_vars

----------------------------------------------------------------------------
(* Threads inside smart_cache_query: every Streamlit session runs its script
   in a thread of its own, and all of them share the CacheManager *)

\* cached_data = cache_manager.load_from_disk_cache(cache_key), and the
\* return of a hit
CallerLoad(c, k) ==
    /\ callers[c] = Idle
    /\ disk' = [disk EXCEPT ![k] = load_file(disk[k], now)]
    /\ callers' = [callers EXCEPT ![c] =
            IF query_invoked(disk[k], now)
            THEN [pc |-> "missed", key |-> k]
            ELSE [pc |-> "returned", key |-> k, ret |-> load_return(disk[k], now)]]
    /\ UNCHANGED <<now, op, memVars, keyVars, invocations, appVars, restVars>>

\* result = query_func(**kwargs); the except branch returns None
CallerQuery(c, outcome) ==
    /\ callers[c].pc = "missed"
    /\ invocations' = [invocations EXCEPT ![callers[c].key] = Append(@, outcome)]
    /\ callers' = [callers EXCEPT ![c] =
            IF outcome = "raise"
            THEN [pc |-> "returned", key |-> callers[c].key, ret |-> None]
            ELSE [pc |-> "queried", key |-> callers[c].key, result |-> outcome]]
    /\ UNCHANGED <<now, disk, op, memVars, keyVars, appVars, restVars>>

\* the save of a result that is not None and not empty, and return result
CallerSave(c) ==
    /\ callers[c].pc = "queried"
    /\ disk' = IF result_saved(callers[c].result)
               THEN [disk EXCEPT ![callers[c].key] =
                        cache_data(callers[c].result, NoTtl, now)]
               ELSE disk
    /\ callers' = [callers EXCEPT ![c] =
            [pc |-> "returned", key |-> callers[c].key, ret |-> callers[c].result]]
    /\ UNCHANGED <<now, op, memVars, keyVars, invocations, appVars, restVars>>

ConcNext ==
    \/ \E c \in Callers, k \in Keys : CallerLoad(c, k)
    \/ \E c \in Callers, o \in Outcomes : CallerQuery(c, o)
    \/ \E c \in Callers : CallerSave(c)

ConcSpec == Init /\ [][ConcNext]_vars

----------------------------------------------------------------------------
(* The application: Streamlit reruns main() on every interaction *)

\* the keys of the dictionary render_sidebar returns, and the keys main()
\* reads from it
SidebarKeys == {"page", "filters"}
MainReads == {"page", "filters", "auth_status"}

\* the buttons of render_cache_controls; at most one is pressed in a run
SidebarButtons == {"none", "refresh", "clear_all"}

\* how far a run of main() gets: a pressed sidebar button ends the run with
\* st.rerun(); otherwise sidebar_data[...] raises KeyError for a key that
\* render_sidebar did not return, and only then render_main_content is called
main_reached(button) ==
    IF button # "none" THEN "rerun"
    ELSE IF MainReads \subseteq SidebarKeys THEN "render_main_content"
    ELSE "KeyError"

\* one run of main(). initialize_cache(): get_cache_manager() hands out the
\* CacheManager kept by st.cache_resource, constructing it (which only makes
\* the directory) when none is kept, and then clear_expired_cache() is
\* called, on every run. render_sidebar(): 'Refresh' calls
\* st.cache_data.clear(), 'Clear All' calls st.cache_data.clear() and
\* st.cache_resource.clear(), and both end the run with st.rerun(). Then the
\* three reads of sidebar_data.
RunMain(button) ==
    /\ manager = "none" \/ startupSweeps < MaxRenders
    /\ manager' = IF button = "clear_all" THEN "none" ELSE "held"
    /\ startupSweeps' = IF manager = "none" THEN 1 ELSE startupSweeps + 1
    /\ disk' = [k \in Keys |-> IF sweep_removes(disk[k], now) THEN Absent ELSE disk[k]]
    /\ memo' = IF button = "none" THEN memo ELSE [q \in Queries |-> NoMemo]
    /\ pageMemo' = IF button = "none" THEN pageMemo ELSE [r \in DateRanges |-> NoMemo]
    /\ client' = IF button = "clear_all" THEN "none" ELSE client
    /\ op' = [name |-> "main", key |-> "", ret |-> None, at |-> now,
              constructed |-> manager = "none",
              sweeps |-> startupSweeps',
              button |-> button,
              reached |-> main_reached(button),
              missing |-> MainReads \ SidebarKeys]
    /\ UNCHANGED <<now, keyVars, concVars, restVars>>

AppNext ==
    \/ Tick
    \/ TickLong
    \/ \E k \in Keys, ttl \in {NoTtl, <<1>>} : SaveToDiskCache(k, "Rows", ttl)
    \/ \E button \in SidebarButtons : RunMain(button)
    \/ ClearAllCache

AppSpec == Init /\ [][AppNext]_vars

----------------------------------------------------------------------------
(* The user interface: page routing, the invalidation buttons, logout and
   the import of the auth component *)

\* auth_status.get("is_authenticated", False): <<>> is a dictionary without
\* the key
AuthStatuses == {<<>>, <<FALSE>>, <<TRUE>>}
is_authenticated(auth_status) ==
    IF auth_status = <<>> THEN FALSE ELSE auth_status[1]

Pages == {"executive_summary", "delivery_performance", "customer_satisfaction",
          "product_analysis", "payment_insights"}

\* the routing without the authentication check
page_renderer_ignoring_auth(selected_page, auth_status) ==
    IF selected_page \in Pages THEN selected_page ELSE "executive_summary"

\* the page renderer render_main_content invokes: none when not
\* authenticated, the executive summary for a page name it does not know
page_renderer(selected_page, auth_status) ==
    IF ~is_authenticated(auth_status) THEN "none"
    ELSE IF selected_page \in Pages THEN selected_page
    ELSE "executive_summary"

\* render_main_content and the page renderer it invokes. Every renderer
\* calls get_data_loader() (the loader is built when st.cache_resource holds
\* none) and test_connection(), which asks the warehouse for the dataset
\* when there is a client, and returns when that fails. The executive
\* summary then calls its three loaders, each of which raises TypeError
\* before any query and memoises None; the other pages hand their queries to
\* execute_query (the loaders' own st.cache_data entries are not kept here:
\* a miss in them is the case in which a query can go out). op.sent is what
\* went to the warehouse.
RenderMainContent(selected_page, auth_status, ok, reachable, outcome) ==
    LET renderer == page_renderer(selected_page, auth_status)
        built == IF client = "none" THEN (IF ok THEN "ok" ELSE "failed") ELSE client
        connected == built = "ok" /\ reachable
        queries == renderer # "none" /\ renderer # "executive_summary" /\ connected
        hit == memo_valid(memo["q1"], CACHE_CONFIG_ttl, now)
    IN
    /\ client' = IF renderer = "none" THEN client ELSE built
    /\ pageMemo' = IF renderer = "executive_summary" /\ connected
                      /\ ~memo_valid(pageMemo["r1"], DATA_REFRESH_metrics_ttl, now)
                   THEN [pageMemo EXCEPT !["r1"] = memo_entry(load_executive_metrics_body, now)]
                   ELSE pageMemo
    /\ memo' = IF queries /\ ~hit
               THEN [memo EXCEPT !["q1"] = memo_entry(execute_query_body(built, outcome), now)]
               ELSE memo
    /\ op' = [name |-> "render_main_content", key |-> selected_page, ret |-> None,
              at |-> now, auth |-> auth_status, renderer |-> renderer,
              sent |-> IF renderer = "none" \/ built # "ok" THEN {}
                       ELSE {"get_dataset"} \cup
                            (IF queries /\ ~hit THEN {"query"} ELSE {})]
    /\ UNCHANGED <<now, disk, keyVars, concVars, appVars, restVars>>

\* render_footer with 'Clear Cache' pressed: st.cache_data.clear()
RenderFooter ==
    /\ memo' = [q \in Queries |-> NoMemo]
    /\ pageMemo' = [r \in DateRanges |-> NoMemo]
    /\ op' = [name |-> "render_footer", key |-> "", ret |-> None, at |-> now]
    /\ UNCHANGED <<now, disk, client, keyVars, concVars, appVars, restVars>>

\* logout_user: the session's credentials are deleted (they are not part of
\* the state here), then st.cache_data.clear()
LogoutUser ==
    /\ memo' = [q \in Queries |-> NoMemo]
    /\ pageMemo' = [r \in DateRanges |-> NoMemo]
    /\ op' = [name |-> "logout_user", key |-> "", ret |-> None, at |-> now]
    /\ UNCHANGED <<now, disk, client, keyVars, concVars, appVars, restVars>>

\* the names config/settings.py defines at module level
SettingsNames ==
    {"get_bigquery_credentials", "get_project_id", "get_env_config",
     "init_streamlit_config", "BQ_CONFIG", "STREAMLIT_CONFIG", "CACHE_CONFIG",
     "DATA_REFRESH", "UI_CONFIG", "PERFORMANCE_CONFIG", "COLOR_PALETTE",
     "CHART_THEMES", "AUTH_CONFIG", "APP_CONFIG", "GOOGLE_CREDENTIALS_PATH",
     "TABLES"}

\* from ..config.settings import init_oauth_flow, get_oauth_credentials,
\* OAUTH_CONFIG
RequiredByAuth == {"init_oauth_flow", "get_oauth_credentials", "OAUTH_CONFIG"}

\* import olist_dashboard.components.auth: a from-import of a name the
\* module does not define raises ImportError
ImportAuth ==
    /\ op' = [name |-> "import_auth", key |-> "", at |-> now,
              ret |-> IF RequiredByAuth \subseteq SettingsNames
                      THEN "module" ELSE "ImportError",
              missing |-> RequiredByAuth \ SettingsNames]
    /\ UNCHANGED <<now, disk, memVars, keyVars, concVars, appVars, restVars>>

UiNext ==
    \/ Tick
    \/ SaveToDiskCache("k1", "Rows", NoTtl)
    \/ ExecuteQuery("q1", "Rows")
    \/ \E p \in {"payment_insights", "unknown"}, a \in AuthStatuses,
          ok \in BOOLEAN, reachable \in BOOLEAN :
            RenderMainContent(p, a, ok, reachable, "Rows")
    \/ \E button \in SidebarButtons : RunMain(button)
    \/ RenderFooter
    \/ LogoutUser
    \/ ImportAuth

UiSpec == Init /\ [][UiNext]_vars

----------------------------------------------------------------------------
(* The sweep running beside saves and loads of other threads: the file
   operations of clear_expired_cache and save_to_disk_cache one at a time *)

\* cache_files = [f for f in os.listdir(self.cache_dir) ...]
SweepList(listing) ==
    /\ sweep.pc = "idle"
    /\ sweep' = [pc |-> "read", todo |-> listing]
    /\ UNCHANGED <<now, disk, op, memVars, keyVars, concVars, appVars,
                   configTtl, sources, writing>>

\* the pass is over: by the outer except when aborted, by the end of the loop
\* otherwise
sweep_result(aborted, todo, t) ==
    [name |-> "clear_expired_cache", key |-> "", ret |-> None, at |-> t,
     aborted |-> aborted,
     unexamined |-> {todo[i] : i \in 1..Len(todo)}]

\* open(file_path, 'rb') and pickle.load of the next listed file, and the
\* decision about it: a file that is gone raises, and the except branch's
\* os.remove raises again, out of the loop
SweepRead ==
    /\ sweep.pc = "read"
    /\ sweep.todo # <<>>
    /\ LET k == Head(sweep.todo)
           r == sweep_entry(disk[k], IF disk[k] = Absent THEN "vanished" ELSE "none", now)
       IN
       /\ sweep' = IF r.raised THEN NotSweeping
                   ELSE IF r.cleared = 1 THEN [sweep EXCEPT !.pc = "remove"]
                   ELSE [sweep EXCEPT !.todo = Tail(@)]
       /\ op' = IF r.raised THEN sweep_result(TRUE, Tail(sweep.todo), now) ELSE op
    /\ UNCHANGED <<now, disk, memVars, keyVars, concVars, appVars,
                   configTtl, sources, writing>>

\* os.remove(file_path) of the file just judged expired or unreadable: it
\* removes whatever is at the path now; what a writer that has the file open
\* still dumps goes to the unlinked file. On a path that is gone it raises
\* (in the try: into the except branch, whose os.remove raises again)
SweepRemove ==
    /\ sweep.pc = "remove"
    /\ LET k == Head(sweep.todo) IN
       IF disk[k] = Absent
       THEN /\ sweep' = NotSweeping
            /\ op' = sweep_result(TRUE, Tail(sweep.todo), now)
            /\ UNCHANGED <<disk, writing>>
       ELSE /\ disk' = [disk EXCEPT ![k] = Absent]
            /\ writing' = [writing EXCEPT ![k] =
                    IF @.pc = "open" THEN [@ EXCEPT !.unlinked = TRUE] ELSE @]
            /\ sweep' = [pc |-> "read", todo |-> Tail(sweep.todo)]
            /\ op' = op
    /\ UNCHANGED <<now, memVars, keyVars, concVars, appVars, configTtl, sources>>

SweepFinish ==
    /\ sweep.pc = "read"
    /\ sweep.todo = <<>>
    /\ sweep' = NotSweeping
    /\ op' = sweep_result(FALSE, <<>>, now)
    /\ UNCHANGED <<now, disk, memVars, keyVars, concVars, appVars,
                   configTtl, sources, writing>>

\* save_to_disk_cache up to open(cache_file, 'wb'): cache_data is built
\* (timestamp = datetime.now()) and the file is created or truncated
SaveOpen(k, data, ttl) ==
    /\ writing[k].pc = "none"
    /\ disk' = [disk EXCEPT ![k] = Corrupt]
    /\ writing' = [writing EXCEPT ![k] =
            [pc |-> "open", data |-> data, ttl |-> ttl, at |-> now,
             pre |-> disk[k], unlinked |-> FALSE]]
    /\ UNCHANGED <<now, op, memVars, keyVars, concVars, appVars,
                   configTtl, sources, sweep>>

\* pickle.dump(cache_data, f), the end of the with block and return True
SaveDump(k) ==
    /\ writing[k].pc = "open"
    /\ disk' = IF writing[k].unlinked THEN disk
               ELSE [disk EXCEPT ![k] =
                        cache_data(writing[k].data, writing[k].ttl, writing[k].at)]
    /\ writing' = [writing EXCEPT ![k] = NotWriting]
    /\ op' = [name |-> "save_to_disk_cache", key |-> k, data |-> writing[k].data,
              ttl |-> writing[k].ttl, at |-> writing[k].at, done |-> now,
              pre |-> writing[k].pre, ret |-> "True"]
    /\ UNCHANGED <<now, memVars, keyVars, concVars, appVars,
                   configTtl, sources, sweep>>

RaceNext ==
    \/ Tick
    \/ TickLong
    \/ \E listing \in Listings(disk) : SweepList(listing)
    \/ SweepRead
    \/ SweepRemove
    \/ SweepFinish
    \/ \E k \in Keys : SaveOpen(k, "Rows", <<1>>)
    \/ \E k \in Keys : SaveDump(k)
    \/ \E k \in Keys : LoadFromDiskCache(k)

RaceSpec == Init /\ [][RaceNext]_vars

----------------------------------------------------------------------------
(* The credential sources of config/settings.py *)

\* get_bigquery_credentials: the environment variable is tried first, and
\* from_service_account_file is called on it outside any try; the Streamlit
\* secret and the key file in the working directory are each tried inside a
\* try whose except passes; None when nothing was returned
get_bigquery_credentials(src) ==
    IF src["env"] # "absent"
    THEN (IF src["env"] = "valid" THEN "credentials" ELSE "raise")
    ELSE IF src["secrets"] = "valid" THEN "credentials"
    ELSE IF src["keyfile"] = "valid" THEN "credentials"
    ELSE None

\* the environment, the secrets or the working directory changes
SetSource(s, v) ==
    /\ v # sources[s]
    /\ sources' = [sources EXCEPT ![s] = v]
    /\ UNCHANGED <<now, disk, op, memVars, keyVars, concVars, appVars,
                   configTtl, raceVars>>

GetBigqueryCredentials ==
    /\ op' = [name |-> "get_bigquery_credentials", key |-> "", at |-> now,
              sources |-> sources, ret |-> get_bigquery_credentials(sources)]
    /\ UNCHANGED <<now, disk, memVars, keyVars, concVars, appVars, restVars>>

CredNext ==
    \/ \E s \in SourceNames, v \in SourceStates : SetSource(s, v)
    \/ GetBigqueryCredentials

CredSpec == Init /\ [][CredNext]_vars

----------------------------------------------------------------------------
(* The disk cache under settings that are edited between runs *)

\* CACHE_CONFIG["ttl"] is given another value (settings.py is edited and the
\* app restarted); the files in .streamlit_cache stay
EditConfig(v) ==
    /\ v # configTtl
    /\ configTtl' = v
    /\ UNCHANGED <<now, disk, op, memVars, keyVars, concVars, appVars, sources, raceVars>>

SaveUnderConfig(k, data, ttl) ==
    /\ disk' = [disk EXCEPT ![k] =
            [kind |-> "entry", data |-> data, timestamp |-> now,
             ttl |-> stored_ttl_under(ttl, configTtl)]]
    /\ op' = [name |-> "save_to_disk_cache", key |-> k, data |-> data, ttl |-> ttl,
              at |-> now, pre |-> disk[k], ret |-> "True"]
    /\ UNCHANGED <<now, memVars, keyVars, concVars, appVars, restVars>>

LoadUnderConfig(k) ==
    LET f == as_read(disk[k], configTtl) IN
    /\ disk' = [disk EXCEPT ![k] = IF load_file(f, now) = Absent THEN Absent ELSE @]
    /\ op' = [name |-> "load_from_disk_cache", key |-> k, at |-> now,
              pre |-> disk[k], ret |-> load_return(f, now), config |-> configTtl]
    /\ UNCHANGED <<now, memVars, keyVars, concVars, appVars, restVars>>

ClearExpiredUnderConfig ==
    /\ disk' = [k \in Keys |->
            IF sweep_removes(as_read(disk[k], configTtl), now) THEN Absent ELSE disk[k]]
    /\ op' = [name |-> "clear_expired_cache", key |-> "", ret |-> None, at |-> now,
              cleared_count |-> Cardinality({k \in Keys :
                                    sweep_removes(as_read(disk[k], configTtl), now)}),
              config |-> configTtl]
    /\ UNCHANGED <<now, memVars, keyVars, concVars, appVars, restVars>>

GetCacheStatsUnderConfig ==
    LET total_files == Cardinality({k \in Keys : disk[k] # Absent})
        valid_files == Cardinality({k \in Keys :
                            stats_valid(as_read(disk[k], configTtl), now)})
    IN
    /\ op' = [name |-> "get_cache_stats", key |-> "",
              ret |-> [total_files |-> total_files,
                       valid_files |-> valid_files,
                       hit_rate |-> hit_rate(valid_files, total_files)],
              at |-> now, config |-> configTtl]
    /\ UNCHANGED <<now, disk, memVars, keyVars, concVars, appVars, restVars>>

PolicyNext ==
    \/ Tick
    \/ TickLong
    \/ \E v \in ConfigTtls : EditConfig(v)
    \/ \E k \in Keys, ttl \in {NoTtl, <<1>>} : SaveUnderConfig(k, "Rows", ttl)
    \/ \E k \in Keys : LoadUnderConfig(k)
    \/ ClearExpiredUnderConfig
    \/ GetCacheStatsUnderConfig

PolicySpec == Init /\ [][PolicyNext]_vars

----------------------------------------------------------------------------
(* The key generator as a state machine *)

\* the app restarts: the new process draws its addresses and hash seed
RestartProcess(e) ==
    /\ env' = e
    /\ UNCHANGED <<now, disk, op, memVars, keyCalls, concVars, appVars, restVars>>

GenerateCacheKey(operation, args, kwargs) ==
    /\ Len(keyCalls) < MaxKeyCalls
    /\ keyCalls' = Append(keyCalls,
            [operation |-> operation, env |-> env, args |-> args, kwargs |-> kwargs,
             result |-> generate_cache_key(operation, args, kwargs, env)])
    /\ UNCHANGED <<now, disk, op, memVars, env, concVars, appVars, restVars>>

KeyNext ==
    \/ \E e \in ProcEnvs : RestartProcess(e)
    \/ \E o \in Operations, args \in ArgTuples, kwargs \in KwargLists :
            GenerateCacheKey(o, args, kwargs)

KeySpec == Init /\ [][KeyNext]_vars

----------------------------------------------------------------------------
(* Properties of the disk cache (checked under Spec) *)

\* the TTL window a caller of smart_cache_query asks for
ttl_window(ttl) == IF ttl = NoTtl THEN CACHE_CONFIG_ttl ELSE ttl[1]

\* this step is a smart_cache_query
FetchStep == op' # op /\ op'.name = "smart_cache_query"

\* C1: after a cold smart_cache_query whose query_func returned a result
\* (rows or an empty result set), a later smart_cache_query of the same key
\* inside the TTL window is answered from the cache with the same result and
\* does not invoke query_func again (its call counter stays at 1).
C1_FetchedOncePerWindow ==
    [][(/\ op.name = "smart_cache_query"
        /\ op.outcome \in Payloads
        /\ FetchStep
        /\ op'.key = op.key
        /\ now' - op.at <= ttl_window(op.ttl))
       => (op'.outcome = "hit" /\ op'.ret = op.ret)]_vars

\* C2: load_from_disk_cache on an entry older than its stored ttl returns
\* None and leaves no file behind; on an entry whose age is at most its ttl
\* it returns the entry's data.
C2_LoadHonoursTtl ==
    (op.name = "load_from_disk_cache" /\ IsEntry(op.pre)) =>
        IF op.at - op.pre.timestamp > op.pre.ttl
        THEN op.ret = None /\ disk[op.key] = Absent
        ELSE op.ret = op.pre.data /\ disk[op.key] = op.pre

\* C2 witness: a load has found an expired entry, answered None and removed it
C2_ExpiredEntryLoaded ==
    /\ op.name = "load_from_disk_cache"
    /\ IsEntry(op.pre)
    /\ op.at - op.pre.timestamp > op.pre.ttl
    /\ op.ret = None
    /\ disk[op.key] = Absent

\* C3: a smart_cache_query whose query_func raises writes nothing to the
\* file of its key, and the next smart_cache_query of that key invokes
\* query_func again.
C3_FailureNotCached ==
    [][/\ (FetchStep /\ op'.outcome = "raise") =>
            (disk'[op'.key] = disk[op'.key] \/ disk'[op'.key] = Absent)
       /\ (op.name = "smart_cache_query" /\ op.outcome = "raise"
            /\ FetchStep /\ op'.key = op.key) =>
            op'.outcome # "hit"]_vars

\* C3 witness: query_func has raised on a cold miss after time has passed
C3_QueryRaised ==
    /\ op.name = "smart_cache_query"
    /\ op.outcome = "raise"
    /\ op.pre = Absent
    /\ disk[op.key] = Absent
    /\ op.at > 0

\* C5: the three outcomes of smart_cache_query are kept apart: an empty
\* result set is stored like any payload, a failed query is answered with
\* something no successful query returns, and a hit is answered with the
\* payload that was stored.
C5_OutcomesKeptApart ==
    op.name = "smart_cache_query" =>
        /\ op.outcome = "Empty" =>
              (IsEntry(disk[op.key]) /\ disk[op.key].data = "Empty")
        /\ op.outcome \in {"raise", "None"} => op.ret \notin Payloads
        /\ op.outcome = "hit" => op.ret = op.pre.data

\* C10: load_from_disk_cache on a file pickle cannot read returns None and
\* removes the file.
C10_CorruptEntryRemoved ==
    (op.name = "load_from_disk_cache" /\ op.pre = Corrupt) =>
        (op.ret = None /\ disk[op.key] = Absent)

\* this step is a load_from_disk_cache, a clear_expired_cache, a get_cache_stats
LoadStep == op' # op /\ op'.name = "load_from_disk_cache"
SweepStep == op' # op /\ op'.name = "clear_expired_cache"
StatsStep == op' # op /\ op'.name = "get_cache_stats"

\* the entry's TTL has elapsed at time t
ttl_elapsed(f, t) == IsEntry(f) /\ t - f.timestamp > f.ttl

\* C11: the file of a key is at every moment, a crash inside
\* save_to_disk_cache included, either missing or a complete entry, never a
\* truncated or partially written file.
C11_SaveAtomic ==
    \A k \in Keys : disk[k] = Absent \/ IsEntry(disk[k])

\* C12: clear_expired_cache removes every entry whose TTL has elapsed, leaves
\* every other entry as it was, and returns the number of files it removed.
C12_SweepExactAndCounted ==
    [][SweepStep =>
        /\ \A k \in Keys :
            /\ ttl_elapsed(disk[k], now) => disk'[k] = Absent
            /\ (IsEntry(disk[k]) /\ ~ttl_elapsed(disk[k], now)) => disk'[k] = disk[k]
        /\ op'.ret # None
        /\ op'.ret = Cardinality({k \in Keys : disk[k] # Absent /\ disk'[k] = Absent})]_vars

\* C15: after a smart_cache_query that was answered by a valid disk entry,
\* the next smart_cache_query of the same key is answered without consulting
\* the disk store (the entry was copied into the memory tier).
C15_DiskHitPromoted ==
    [][(/\ op.name = "smart_cache_query"
        /\ op.outcome = "hit"
        /\ FetchStep
        /\ op'.key = op.key)
       => (\A i \in 1..Len(lookup_order(op'.pre, op'.at)) :
                lookup_order(op'.pre, op'.at)[i] # "disk")]_vars

\* C17: a smart_cache_query that finds an entry whose TTL has elapsed never
\* answers with that entry; when query_func then fails it answers None, the
\* failure result.
C17_NoStaleOnFailure ==
    (op.name = "smart_cache_query" /\ ttl_elapsed(op.pre, op.at)) =>
        /\ op.outcome # "hit"
        /\ op.outcome = "raise" => op.ret = None

\* C17 witness: the entry had expired, query_func raised, the caller got None
\* and the stale file is gone
C17_ExpiredAndUnreachable ==
    /\ op.name = "smart_cache_query"
    /\ ttl_elapsed(op.pre, op.at)
    /\ op.outcome = "raise"
    /\ op.ret = None
    /\ disk[op.key] = Absent

\* C18: a load_from_disk_cache that follows a save_to_disk_cache of the same
\* key inside the TTL window returns the payload that was saved, and finds an
\* entry carrying the timestamp and the ttl of that save, whatever the file
\* held before it.
C18_SaveLoadRoundTrip ==
    [][(/\ op.name = "save_to_disk_cache"
        /\ LoadStep
        /\ op'.key = op.key
        /\ now' - op.at <= stored_ttl(op.ttl))
       => (/\ op'.ret = op.data
           /\ op'.pre.timestamp = op.at
           /\ op'.pre.ttl = stored_ttl(op.ttl)
           /\ disk'[op.key] = op'.pre)]_vars

\* C18 witness: a load has returned rows from an entry that was written
\* after the clock had moved, at the last instant of its one-second ttl
C18_LoadedAtLastInstant ==
    /\ op.name = "load_from_disk_cache"
    /\ IsEntry(op.pre)
    /\ op.pre.timestamp > 0
    /\ op.pre.ttl = 1
    /\ op.at - op.pre.timestamp = 1
    /\ op.ret = "Rows"

\* C19: get_cache_stats changes no file; total_files is the number of files
\* in the store, valid_files the number of entries whose TTL has not elapsed
\* (at most total_files), and hit_rate is 0 for an empty store.
C19_StatsReadOnlyView ==
    [][StatsStep =>
        /\ disk' = disk
        /\ op'.ret.total_files = Cardinality({k \in Keys : disk[k] # Absent})
        /\ op'.ret.valid_files =
                Cardinality({k \in Keys : IsEntry(disk[k]) /\ ~ttl_elapsed(disk[k], now)})
        /\ op'.ret.valid_files <= op'.ret.total_files
        /\ op'.ret.total_files = 0 => op'.ret.hit_rate = 0]_vars

\* C19 witness: stats over a store holding one expired entry and one entry
\* at the last instant of its ttl
C19_StatsOverMixedStore ==
    /\ op.name = "get_cache_stats"
    /\ op.ret.total_files = 2
    /\ op.ret.valid_files = 1
    /\ op.ret.hit_rate = 500
    /\ \E k \in Keys : IsEntry(disk[k]) /\ op.at - disk[k].timestamp = disk[k].ttl
    /\ \E k \in Keys : ttl_elapsed(disk[k], op.at)

\* C25: after a save_to_disk_cache with an explicit ttl_seconds = t (0
\* included), a load_from_disk_cache of the key answers None exactly when the
\* age of the entry exceeds t.
C25_ExplicitTtlHonoured ==
    [][(/\ op.name = "save_to_disk_cache"
        /\ op.ttl # NoTtl
        /\ LoadStep
        /\ op'.key = op.key)
       => (op'.ret = None <=> now' - op.at > op.ttl[1])]_vars

\* C29: load_from_disk_cache, clear_expired_cache and get_cache_stats judge
\* every file alike: a load returns the data of exactly the files stats would
\* count as valid and a sweep would keep; a sweep keeps exactly the files
\* stats would count and a load would return; stats counts exactly the files
\* a load would return and a sweep would keep.
C29_ExpiryJudgedAlike ==
    [][/\ LoadStep =>
            /\ op'.ret # None <=> stats_valid(op'.pre, now)
            /\ op'.ret # None <=> (op'.pre # Absent /\ ~sweep_removes(op'.pre, now))
       /\ SweepStep =>
            \A k \in Keys : disk[k] # Absent =>
                /\ disk'[k] # Absent <=> stats_valid(disk[k], now)
                /\ disk'[k] # Absent <=> load_return(disk[k], now) # None
       /\ StatsStep =>
            /\ op'.ret.valid_files =
                    Cardinality({k \in Keys : load_return(disk[k], now) # None})
            /\ op'.ret.valid_files =
                    Cardinality({k \in Keys : disk[k] # Absent /\ ~sweep_removes(disk[k], now)})]_vars

\* C29 witness: stats has counted one file of two, over a store holding an
\* unreadable file and an entry at the last instant of its ttl
C29_JudgedBoundaryAndUnreadable ==
    /\ op.name = "get_cache_stats"
    /\ op.ret.total_files = 2
    /\ op.ret.valid_files = 1
    /\ \E k \in Keys : disk[k] = Corrupt
    /\ \E k \in Keys : IsEntry(disk[k]) /\ op.at - disk[k].timestamp = disk[k].ttl

\* C26: a save_to_disk_cache that returns False leaves the store as it
\* was: a valid entry the key had before is still there and is still what a
\* load returns.
C26_FailedSaveLeavesStore ==
    [][(op' # op /\ op'.name = "save_to_disk_cache" /\ op'.ret = "False")
        => (stats_valid(disk[op'.key], now)
                => /\ disk' = disk
                   /\ load_return(disk'[op'.key], now') = disk[op'.key].data)]_vars

----------------------------------------------------------------------------
(* Properties under edited settings (checked under PolicySpec) *)

\* C21: whatever CACHE_CONFIG["ttl"] has been changed to since an entry was
\* written, load, sweep and stats decide its expiry by the ttl stored in it:
\* the entry is expired exactly when its age exceeds that ttl.
C21_TtlFixedAtWrite ==
    [][/\ LoadStep =>
            (op'.ret = None <=> (disk[op'.key] = Absent \/ ttl_elapsed(disk[op'.key], now)))
       /\ SweepStep =>
            \A k \in Keys : disk'[k] = Absent <=>
                                (disk[k] = Absent \/ ttl_elapsed(disk[k], now))
       /\ StatsStep =>
            op'.ret.valid_files =
                Cardinality({k \in Keys : IsEntry(disk[k]) /\ ~ttl_elapsed(disk[k], now)})]_vars

\* C21 witness: an entry written under the default ttl was returned by a load
\* after CACHE_CONFIG["ttl"] had been set to one second and more than a
\* second had passed
C21_ServedAfterConfigShrank ==
    /\ op.name = "load_from_disk_cache"
    /\ IsEntry(op.pre)
    /\ op.pre.ttl = CACHE_CONFIG_ttl
    /\ op.config = 1
    /\ op.at - op.pre.timestamp > 1
    /\ op.ret = "Rows"

----------------------------------------------------------------------------
(* Properties of the passes on a faulty disk (checked under IoSpec) *)

\* this step is a pass over the directory
PassStep == op' # op /\ op'.name \in {"clear_expired_cache", "get_cache_stats"}

\* C13: a pass of clear_expired_cache or get_cache_stats in which one file
\* fails (unreadable, unremovable or vanished) is not aborted: every other
\* listed file is examined, and clear_expired_cache removes every other
\* expired entry.
C13_FaultDoesNotAbortPass ==
    [][PassStep =>
        \A k \in Keys :
            (disk[k] # Absent /\ op'.faults[k] = "none") =>
                /\ k \in op'.examined
                /\ (op'.name = "clear_expired_cache" /\ ttl_elapsed(disk[k], now))
                        => disk'[k] = Absent]_vars

----------------------------------------------------------------------------
(* Properties of the two tiers together (checked under TierSpec) *)

\* this step is a clear_all_cache
ClearAllStep == op' # op /\ op'.name = "clear_all_cache"

\* C14: clear_all_cache leaves no file in the disk store and no entry in
\* st.cache_data, whatever their age, and a smart_cache_query that follows it
\* finds no file and invokes query_func.
C14_ClearAllEmptiesBothTiers ==
    [][/\ ClearAllStep =>
            /\ \A k \in Keys : disk'[k] = Absent
            /\ \A q \in Queries : memo'[q] = NoMemo
            /\ \A r \in DateRanges : pageMemo'[r] = NoMemo
       /\ (op.name = "clear_all_cache" /\ FetchStep) =>
            /\ op'.pre = Absent
            /\ op'.outcome # "hit"
            /\ lookup_order(op'.pre, op'.at) = <<"disk", "query_func">>]_vars

\* C14 witness: clear_all_cache has run over a store that held a valid
\* entry, an expired one and memoised query results, and left nothing
C14_BothTiersCleared ==
    /\ op.name = "clear_all_cache"
    /\ \E k \in op.pre.valid : k \notin op.pre.stale
    /\ op.pre.stale # {}
    /\ op.pre.memo # {}
    /\ op.pre.pageMemo # {}
    /\ \A k \in Keys : disk[k] = Absent
    /\ \A q \in Queries : memo[q] = NoMemo
    /\ \A r \in DateRanges : pageMemo[r] = NoMemo


----------------------------------------------------------------------------
(* Properties of concurrent callers (checked under ConcSpec) *)

\* C16: however the smart_cache_query calls of several threads interleave
\* inside one TTL window, query_func returns rows for a key at most once:
\* the callers that miss together do not each run the query.
C16_SingleFlight ==
    \A k \in Keys :
        Len(SelectSeq(invocations[k], LAMBDA o : o = "Rows")) <= 1

----------------------------------------------------------------------------
(* Properties of the application (checked under AppSpec) *)

\* C20: the CacheManager that is held has been swept exactly once, when it
\* was constructed; the reruns of main() that reuse it do not sweep again.
C20_SweptOncePerManager ==
    manager = "held" => startupSweeps = 1

\* C30: a run of main() that finishes rendering the sidebar goes on to call
\* render_main_content: render_sidebar's dictionary has every key main()
\* reads from it.
C30_SidebarFeedsMainContent ==
    (op.name = "main" /\ op.reached # "rerun")
        => (op.missing = {} /\ op.reached = "render_main_content")

----------------------------------------------------------------------------
(* Properties of the user interface (checked under UiSpec) *)

\* C22: no warehouse request goes out without credentials:
\* render_main_content invokes no page renderer (and so sends nothing) while
\* auth_status is not authenticated, and an execute_query on a loader whose
\* client was not initialised sends nothing to the warehouse.
C22_NoQueryWithoutCredentials ==
    /\ (op.name = "render_main_content" /\ ~is_authenticated(op.auth))
            => (op.renderer = "none" /\ op.sent = {})
    /\ (op.name = "execute_query" /\ client # "ok")
            => op.outcome \in {"no_client", "hit"}

\* C22 witness: render_main_content ran for a user who is not authenticated
\* while a working client was held, and invoked no renderer
C22_UnauthenticatedWithWorkingClient ==
    /\ op.name = "render_main_content"
    /\ op.auth = <<FALSE>>
    /\ client = "ok"
    /\ op.renderer = "none"

\* C24: the auth component imports without error: config/settings.py
\* provides get_oauth_credentials, init_oauth_flow and OAUTH_CONFIG.
C24_AuthImports ==
    op.name = "import_auth" => (op.ret = "module" /\ op.missing = {})

InvalidationStep ==
    /\ op' # op
    /\ \/ op'.name = "main" /\ op'.button = "clear_all"
       \/ op'.name = "render_footer"
       \/ op'.name = "logout_user"

\* C28: after sidebar 'Clear All', footer 'Clear Cache' or logout, nothing
\* cached before it is served: st.cache_data holds no entry and no key is
\* answered from the disk cache.
C28_InvalidationEmptiesBothTiers ==
    [][InvalidationStep =>
        /\ \A q \in Queries : memo'[q] = NoMemo
        /\ \A r \in DateRanges : pageMemo'[r] = NoMemo
        /\ \A k \in Keys : load_return(disk'[k], now') = None]_vars

----------------------------------------------------------------------------
(* Properties of the sweep beside other threads (checked under RaceSpec) *)

\* the pass is not aborted by a save or load running beside it
C27_SweepNotAborted ==
    op.name = "clear_expired_cache" => ~op.aborted

\* the entry of a save that has just returned True, with no other save of
\* the key under way, is on disk
C27_FreshEntryKept ==
    (/\ op.name = "save_to_disk_cache"
     /\ op.ret = "True"
     /\ op.done = now
     /\ writing[op.key].pc = "none")
        => IsEntry(disk[op.key])

\* C27: clear_expired_cache running beside save_to_disk_cache and
\* load_from_disk_cache is never aborted by them and never costs a fresh
\* entry: not when a listed file is being written, not when a load has just
\* deleted a listed file.
C27_SweepSafeBesideSaveAndLoad ==
    C27_SweepNotAborted /\ C27_FreshEntryKept

----------------------------------------------------------------------------
(* Properties of the credential lookup (checked under CredSpec) *)

\* C23: get_bigquery_credentials never raises: whatever the state of the
\* environment variable, the Streamlit secret and the key file, it returns
\* credentials or None, and None when no source yields credentials.
C23_CredentialsNeverRaise ==
    op.name = "get_bigquery_credentials" =>
        /\ op.ret \in {"credentials", None}
        /\ (\A s \in SourceNames : op.sources[s] # "valid") => op.ret = None

----------------------------------------------------------------------------
(* Properties of the key generator (checked under KeySpec) *)

\* the keyword arguments of a call as name/value pairs, whatever their order
KwargPairs(c) == {c.kwargs[i] : i \in 1..Len(c.kwargs)}
SameArguments(c, d) == c.args = d.args /\ KwargPairs(c) = KwargPairs(d)
\* the values a call hands over
ValuesOf(c) ==
    {c.args[i] : i \in 1..Len(c.args)} \cup {c.kwargs[i][2] : i \in 1..Len(c.kwargs)}
\* a value with a canonical text: not an object that prints its address
Serializable(x) == x.t # "handle"
CallPairs == {pr \in (1..Len(keyCalls)) \X (1..Len(keyCalls)) : pr[1] # pr[2]}

\* C6: two calls of _generate_cache_key with the same positional arguments
\* and the same keyword name/value pairs, in whatever order and in whatever
\* process, return the same key.
C6_KeyDeterministic ==
    \A pr \in CallPairs :
        SameArguments(keyCalls[pr[1]], keyCalls[pr[2]])
            => keyCalls[pr[1]].result.key = keyCalls[pr[2]].result.key

\* C7: two calls whose arguments differ in a positional or keyword argument
\* return different keys.
C7_KeySensitive ==
    \A pr \in CallPairs :
        ~SameArguments(keyCalls[pr[1]], keyCalls[pr[2]])
            => keyCalls[pr[1]].result.key # keyCalls[pr[2]].result.key

\* C8: two different operations that ask for a key with equal arguments get
\* different keys.
C8_KeyNamesOperation ==
    \A pr \in CallPairs :
        (/\ keyCalls[pr[1]].operation # keyCalls[pr[2]].operation
         /\ SameArguments(keyCalls[pr[1]], keyCalls[pr[2]]))
            => keyCalls[pr[1]].result.key # keyCalls[pr[2]].result.key

\* C9: a call that is handed an argument without a canonical text (a live
\* connection handle) raises KeyGenerationError.
C9_HandleRejected ==
    \A i \in 1..Len(keyCalls) :
        (\E x \in ValuesOf(keyCalls[i]) : ~Serializable(x))
            => keyCalls[i].result.raised = "KeyGenerationError"

\* What does hold of the key generator, under KeySpec: within one process
\* run the order of the keyword arguments does not matter, and calls whose
\* arguments are ints and strs get equal keys exactly when the arguments
\* are equal.
KeyStableInOneRun ==
    \A pr \in CallPairs :
        (/\ keyCalls[pr[1]].env = keyCalls[pr[2]].env
         /\ SameArguments(keyCalls[pr[1]], keyCalls[pr[2]]))
            => keyCalls[pr[1]].result.key = keyCalls[pr[2]].result.key

KeyOfPlainValuesExact ==
    \A pr \in CallPairs :
        (\A x \in ValuesOf(keyCalls[pr[1]]) \cup ValuesOf(keyCalls[pr[2]]) :
            x.t \in {"int", "str"})
        => (SameArguments(keyCalls[pr[1]], keyCalls[pr[2]])
            <=> keyCalls[pr[1]].result.key = keyCalls[pr[2]].result.key)

----------------------------------------------------------------------------
(* Properties of the in-memory tier (checked under MemSpec) *)

\* C4: a call of execute_query or of a page loader that is answered from
\* st.cache_data never gets a failure result (None): a failed query is not
\* memoised, the next call runs the query again.
C4_FailureNotMemoised ==
    (op.name \in {"execute_query", "load_executive_metrics"} /\ op.outcome = "hit")
        => op.ret \in Payloads

====
